---- MODULE Spec2Model ----
(***************************************************************************)
(* WasmiumHashID (src/src/lib.rs): a 44-byte identifier made of a 12-byte  *)
(* TAI64N timestamp followed by a 32-byte Blake3 digest.                   *)
(*                                                                         *)
(* Bytes are naturals in 0..255 and byte arrays are sequences.  Rust's     *)
(* u64 and u32 do not fit the model checker's integers, so an unsigned     *)
(* integer is held as its 16-bit limbs, most significant first (a u64 is   *)
(* four limbs, a u32 two); to_be_bytes / from_be_bytes and the numeric     *)
(* comparison are computed on the limbs.                                   *)
(***************************************************************************)
EXTENDS Integers, Sequences, FiniteSets

VARIABLES now, ids, log, hash_id, src, ret

vars == <<now, ids, log, hash_id, src, ret>>

\* ------------------------------------------------------------- bounds
MaxIds == 2
MaxBuilds == 2

\* ---------------------------------------------------------- constants
TIMESTAMP_LEN == 12
HASH_LEN == 32
ID_LEN == 44

\* -------------------------------------------------- Result<T, E> values
Ok(v) == [tag |-> "Ok", val |-> v, err |-> "-"]
Err(e) == [tag |-> "Err", val |-> <<>>, err |-> e]
NoResult == [tag |-> "None", val |-> <<>>, err |-> "-"]

\* A panic unwinds the call: no byte array comes back.
Panic == << -1 >>

\* ------------------------------------------------- arrays and slices
Zeros(n) == [k \in 1..n |-> 0]

\* &a[lo..=hi] with Rust's 0-based offsets; out of range panics.
SliceInclusive(a, lo, hi) ==
  IF a = Panic \/ hi + 1 > Len(a) \/ lo > hi + 1 THEN Panic
  ELSE SubSeq(a, lo + 1, hi + 1)

\* &a[lo..]
SliceFrom(a, lo) ==
  IF a = Panic \/ lo > Len(a) THEN Panic
  ELSE SubSeq(a, lo + 1, Len(a))

\* dst[lo..=hi].copy_from_slice(s): panics unless the lengths agree.
copy_from_slice(dst, lo, hi, s) ==
  IF dst = Panic \/ hi + 1 > Len(dst) \/ (hi - lo + 1) # Len(s) THEN Panic
  ELSE SubSeq(dst, 1, lo) \o s \o SubSeq(dst, hi + 2, Len(dst))

\* ------------------------------------------------- unsigned integers
\* big-endian bytes of an unsigned integer held as 16-bit limbs
to_be_bytes(limbs) ==
  [k \in 1..(2 * Len(limbs)) |->
     IF k % 2 = 1 THEN limbs[(k + 1) \div 2] \div 256 ELSE limbs[k \div 2] % 256]

from_be_bytes(bytes) ==
  [k \in 1..(Len(bytes) \div 2) |-> bytes[2 * k - 1] * 256 + bytes[2 * k]]

\* Ordering of two sequences, element by element, then by length
\* (slice Ord; on equal-length limb sequences it is the numeric order).
cmp_seq(a, b) ==
  LET n == IF Len(a) < Len(b) THEN Len(a) ELSE Len(b)
      d == {k \in 1..n : a[k] # b[k]}
  IN IF d = {}
     THEN (IF Len(a) < Len(b) THEN "Less" ELSE IF Len(a) > Len(b) THEN "Greater" ELSE "Equal")
     ELSE LET k == CHOOSE x \in d : \A y \in d : x <= y
          IN IF a[k] < b[k] THEN "Less" ELSE "Greater"

\* ---------------------------------------------------------- tai64 crate
\* Tai64N(Tai64(u64), u32) is the pair <<secs, nanos>> of limb sequences.
NANOS_PER_SECOND == <<15258, 51712>>

Tai64N_to_bytes(t) == to_be_bytes(t[1]) \o to_be_bytes(t[2])

Tai64N_from_slice(s) ==
  IF Len(s) # TIMESTAMP_LEN THEN Err("LengthInvalid")
  ELSE LET secs == from_be_bytes(SubSeq(s, 1, 8))
           nanos == from_be_bytes(SubSeq(s, 9, 12))
       IN IF cmp_seq(nanos, NANOS_PER_SECOND) = "Less"
          THEN Ok(<<secs, nanos>>)
          ELSE Err("NanosInvalid")

\* derived Ord of Tai64N: seconds first, nanoseconds second
Tai64N_cmp(t, u) ==
  IF cmp_seq(t[1], u[1]) # "Equal" THEN cmp_seq(t[1], u[1]) ELSE cmp_seq(t[2], u[2])

\* ------------------------------------------------------- environment
\* Clock readings Tai64N::now() can return: seconds since 1970 + 2^62 + 10,
\* nanoseconds below 10^9 (here 511 and 999,999,999).  The first reading is
\* the earliest although its nanoseconds are the larger.
ClockSet ==
  { << <<16384, 0, 26000, 255>>, <<15258, 51711>> >>,
    << <<16384, 0, 26000, 256>>, <<0, 511>> >>,
    << <<16384, 0, 26000, 256>>, <<15258, 51711>> >> }

\* Digests handed to new(): 32 bytes each.
DigestSet ==
  { [k \in 1..HASH_LEN |-> k - 1],
    [k \in 1..HASH_LEN |-> IF k = 1 THEN 255 ELSE IF k = HASH_LEN THEN 7 ELSE 0] }

\* Leading 12 bytes a stored or transmitted buffer may hold: a valid
\* timestamp, nanoseconds 999,999,999 / 1,000,000,000 / 4,294,967,295, and
\* nanoseconds 0x3B99FFFF (high half below the limit's, low half above).
WireTimestampSet ==
  { <<64, 0, 0, 0, 101, 144, 0, 255, 0, 0, 1, 0>>,
    <<64, 0, 0, 0, 101, 144, 1, 0, 59, 154, 201, 255>>,
    <<64, 0, 0, 0, 101, 144, 1, 0, 59, 154, 202, 0>>,
    <<255, 255, 255, 255, 255, 255, 255, 255, 255, 255, 255, 255>>,
    <<0, 0, 0, 0, 0, 0, 0, 0, 59, 153, 255, 255>> }

WireBufferSet == { t \o d : t \in WireTimestampSet, d \in DigestSet }

\* ------------------------------------------------------ WasmiumHashID
\* faulty variant: the timestamp stored least significant byte first (to_le_bytes)
new_le(blake3hash) ==
  LET be == Tai64N_to_bytes(now)
      le == [k \in 1..8 |-> be[9 - k]] \o [k \in 1..4 |-> be[13 - k]]
  IN [tai_timestamp |-> le, blake3hash |-> blake3hash]

new(blake3hash) ==
  [tai_timestamp |-> Tai64N_to_bytes(now), blake3hash |-> blake3hash]

\* faulty variant: the digest copied one byte early, hash_id[11..43]
build_overlap(self) ==
  LET h0 == Zeros(ID_LEN)
      h1 == copy_from_slice(h0, 0, 11, self.tai_timestamp)
      h2 == copy_from_slice(h1, 11, ID_LEN - 2, self.blake3hash)
  IN h2

\* faulty variant: the digest never copied, bytes [12,44) left zero
build_no_digest(self) ==
  LET h0 == Zeros(ID_LEN)
      h1 == copy_from_slice(h0, 0, 11, self.tai_timestamp)
  IN h1

\* faulty variant: digest first, timestamp second
build_swapped(self) ==
  LET h0 == Zeros(ID_LEN)
      h1 == copy_from_slice(h0, 0, HASH_LEN - 1, self.blake3hash)
      h2 == copy_from_slice(h1, HASH_LEN, ID_LEN - 1, self.tai_timestamp)
  IN h2

\* faulty variant: the timestamp taken from the clock at the time of the call
build_reads_clock(self) ==
  LET h0 == Zeros(ID_LEN)
      h1 == copy_from_slice(h0, 0, 11, Tai64N_to_bytes(now))
      h2 == copy_from_slice(h1, 12, ID_LEN - 1, self.blake3hash)
  IN h2

build(self) ==
  LET h0 == Zeros(ID_LEN)
      h1 == copy_from_slice(h0, 0, 11, self.tai_timestamp)
      h2 == copy_from_slice(h1, 12, ID_LEN - 1, self.blake3hash)
  IN h2

\* faulty variant: the slice taken one byte late, hash_id[1..=12]
get_timestamp_off(buf) ==
  LET s == SliceInclusive(buf, 1, 12)
  IN IF s = Panic THEN [tag |-> "Panic", val |-> <<>>, err |-> "-"]
     ELSE Tai64N_from_slice(s)

\* faulty variant: a rejected timestamp replaced by the default one (unwrap_or_default)
get_timestamp_default(buf) ==
  LET s == SliceInclusive(buf, 0, 11)
      r == IF s = Panic THEN Err("Panic") ELSE Tai64N_from_slice(s)
  IN IF r.tag = "Ok" THEN r ELSE Ok(<< <<0, 0, 0, 0>>, <<0, 0>> >>)

get_timestamp(buf) ==
  LET s == SliceInclusive(buf, 0, 11)
  IN IF s = Panic THEN [tag |-> "Panic", val |-> <<>>, err |-> "-"]
     ELSE Tai64N_from_slice(s)

\* faulty variant: the slice taken one byte early, hash_id[11..]
get_blake3_hash_off(buf) ==
  LET s == SliceFrom(buf, 11)
  IN IF s = Panic THEN [tag |-> "Panic", val |-> <<>>, err |-> "-"]
     ELSE IF Len(s) = HASH_LEN THEN Ok(s) ELSE Err("TryFromSliceError")

\* faulty variant: the digest returned only when the timestamp half parses
get_blake3_hash_checked(buf) ==
  LET s == SliceFrom(buf, 12)
  IN IF s = Panic THEN [tag |-> "Panic", val |-> <<>>, err |-> "-"]
     ELSE IF Tai64N_from_slice(SliceInclusive(buf, 0, 11)).tag # "Ok"
          THEN Err("TryFromSliceError")
          ELSE IF Len(s) = HASH_LEN THEN Ok(s) ELSE Err("TryFromSliceError")

get_blake3_hash(buf) ==
  LET s == SliceFrom(buf, 12)
  IN IF s = Panic THEN [tag |-> "Panic", val |-> <<>>, err |-> "-"]
     ELSE IF Len(s) = HASH_LEN THEN Ok(s) ELSE Err("TryFromSliceError")

\* faulty variant: the fields compared digest first
WasmiumHashID_cmp_swapped(a, b) ==
  IF cmp_seq(a.blake3hash, b.blake3hash) # "Equal"
  THEN cmp_seq(a.blake3hash, b.blake3hash)
  ELSE cmp_seq(a.tai_timestamp, b.tai_timestamp)

\* derived Ord of WasmiumHashID: fields in declared order
WasmiumHashID_cmp(a, b) ==
  IF cmp_seq(a.tai_timestamp, b.tai_timestamp) # "Equal"
  THEN cmp_seq(a.tai_timestamp, b.tai_timestamp)
  ELSE cmp_seq(a.blake3hash, b.blake3hash)

\* ------------------------------------------------------------ actions
NoSource == [kind |-> "none", id |-> 0, builds |-> 0]

Init ==
  /\ now \in ClockSet
  /\ ids = <<>>
  /\ log = <<>>
  /\ hash_id = <<>>
  /\ src = NoSource
  /\ ret = [op |-> "none", res |-> NoResult]

\* The system clock moves (it is not monotonic: it may be stepped back).
Tick ==
  /\ \E t \in ClockSet : t # now /\ now' = t
  /\ UNCHANGED <<ids, log, hash_id, src, ret>>

\* let id = WasmiumHashID::new(d)
New ==
  /\ Len(ids) < MaxIds
  /\ \E d \in DigestSet :
       /\ ids' = Append(ids, new(d))
       /\ log' = Append(log, [digest |-> d, clock |-> now])
  /\ UNCHANGED <<now, hash_id, src, ret>>

\* let hash_id = ids[i].build()
Build ==
  /\ \E i \in DOMAIN ids :
       LET again == src.kind = "built" /\ src.id = i
       IN /\ again => src.builds < MaxBuilds
          /\ hash_id' = build(ids[i])
          /\ src' = [kind |-> "built", id |-> i,
                     builds |-> IF again THEN src.builds + 1 ELSE 1]
  /\ ret' = [op |-> "build", res |-> NoResult]
  /\ UNCHANGED <<now, ids, log>>

\* hash_id is read back from storage or the wire: any 44 bytes.
Receive ==
  /\ \E b \in WireBufferSet : hash_id' = b
  /\ src' = [kind |-> "wire", id |-> 0, builds |-> 0]
  /\ ret' = [op |-> "none", res |-> NoResult]
  /\ UNCHANGED <<now, ids, log>>

\* WasmiumHashID::get_timestamp(hash_id)
GetTimestamp ==
  /\ src.kind # "none"
  /\ ret' = [op |-> "get_timestamp", res |-> get_timestamp(hash_id)]
  /\ UNCHANGED <<now, ids, log, hash_id, src>>

\* WasmiumHashID::get_blake3_hash(hash_id)
GetBlake3Hash ==
  /\ src.kind # "none"
  /\ ret' = [op |-> "get_blake3_hash", res |-> get_blake3_hash(hash_id)]
  /\ UNCHANGED <<now, ids, log, hash_id, src>>

Next == Tick \/ New \/ Build \/ Receive \/ GetTimestamp \/ GetBlake3Hash

Spec == Init /\ [][Next]_vars


\* =============================================================== claims
\* Byte-lexicographic order of two byte strings, as a reader of the
\* encodings compares them (memcmp, then length).
ByteLexLess(a, b) ==
  \/ \E k \in 1..Len(a) :
       /\ k <= Len(b)
       /\ a[k] < b[k]
       /\ SubSeq(a, 1, k - 1) = SubSeq(b, 1, k - 1)
  \/ (Len(a) < Len(b) /\ a = SubSeq(b, 1, Len(a)))

ByteLexCmp(a, b) ==
  IF ByteLexLess(a, b) THEN "Less" ELSE IF ByteLexLess(b, a) THEN "Greater" ELSE "Equal"

\* The largest valid nanosecond count, 999,999,999, big-endian.
MaxNanosBytes == <<59, 154, 201, 255>>

NanosExceed(buf) == ByteLexLess(MaxNanosBytes, SubSeq(buf, 9, 12))

BuiltFrom(i) == src.kind = "built" /\ src.id = i

\* C1: the digest decoded from the encoding of an identifier made by new(D)
\* is Ok and equals D byte for byte, whatever the clock read.
C1_DigestRoundTrip ==
  (src.kind = "built" /\ ret.op = "get_blake3_hash") =>
     /\ ret.res.tag = "Ok"
     /\ ret.res.val = log[src.id].digest

C1_Witness ==
  /\ src.kind = "built"
  /\ ret.op = "get_blake3_hash"
  /\ ret.res.tag = "Ok"
  /\ ret.res.val = log[src.id].digest
  /\ ret.res.val[1] = 255

\* C2: the timestamp decoded from the encoding of an identifier made by
\* new() at clock instant T is Ok, equals T, encodes to the identifier's
\* stored 12 bytes, and is never an error.
C2_TimestampRoundTrip ==
  (src.kind = "built" /\ ret.op = "get_timestamp") =>
     /\ ret.res.tag = "Ok"
     /\ ret.res.val = log[src.id].clock
     /\ Tai64N_to_bytes(ret.res.val) = ids[src.id].tai_timestamp

C2_Witness ==
  /\ src.kind = "built"
  /\ ret.op = "get_timestamp"
  /\ ret.res.tag = "Ok"
  /\ ret.res.val = log[src.id].clock
  /\ ret.res.val # now

\* C3: build(I) is exactly 44 bytes; bytes [0,12) are I's timestamp bytes in
\* order and bytes [12,44) are I's digest bytes in order, so a byte of the
\* output is zero only where the field byte is zero.
C3_CanonicalLayout ==
  \A i \in DOMAIN ids :
     BuiltFrom(i) =>
        /\ Len(hash_id) = 44
        /\ \A k \in 1..12 : hash_id[k] = ids[i].tai_timestamp[k]
        /\ \A k \in 1..32 : hash_id[12 + k] = ids[i].blake3hash[k]
        /\ \A k \in 1..44 :
             hash_id[k] = 0 =>
               IF k <= 12 THEN ids[i].tai_timestamp[k] = 0
               ELSE ids[i].blake3hash[k - 12] = 0

C3_Witness ==
  \E i \in DOMAIN ids :
     /\ BuiltFrom(i)
     /\ Len(hash_id) = 44
     /\ hash_id[13] = 255 /\ hash_id[14] = 0 /\ hash_id[44] = 7
     /\ hash_id[1] = 64

\* C4: an identifier whose timestamp field is smaller encodes to a
\* byte-lexicographically smaller buffer, whatever the two digests.
C4_TimestampDominates ==
  \A i, j \in DOMAIN ids :
     ByteLexLess(ids[i].tai_timestamp, ids[j].tai_timestamp) =>
        ByteLexLess(build(ids[i]), build(ids[j]))

C4_Witness ==
  \E i, j \in DOMAIN ids :
     /\ ByteLexLess(ids[i].tai_timestamp, ids[j].tai_timestamp)
     /\ ByteLexLess(ids[j].blake3hash, ids[i].blake3hash)
     /\ ByteLexLess(build(ids[i]), build(ids[j]))

\* C5: the derived field-wise comparison of two identifiers (timestamp
\* first, digest second) gives the result of the byte-lexicographic
\* comparison of their encodings, and two identifiers are equal exactly
\* when their encodings are.
C5_OrderAgreesWithEncoding ==
  \A i, j \in DOMAIN ids :
     /\ WasmiumHashID_cmp(ids[i], ids[j]) = ByteLexCmp(build(ids[i]), build(ids[j]))
     /\ (ids[i] = ids[j]) <=> (build(ids[i]) = build(ids[j]))
     /\ (ids[i] = ids[j]) <=> (WasmiumHashID_cmp(ids[i], ids[j]) = "Equal")

C5_Witness ==
  \E i, j \in DOMAIN ids :
     /\ i # j
     /\ ids[i].tai_timestamp = ids[j].tai_timestamp
     /\ WasmiumHashID_cmp(ids[i], ids[j]) = "Greater"
     /\ ByteLexCmp(build(ids[i]), build(ids[j])) = "Greater"

\* C6: get_timestamp of any 44-byte buffer returns Ok or a typed error,
\* never a panic or a default; it is the error exactly when the nanosecond
\* bytes [8,12) exceed 999,999,999, and otherwise the Ok value is the
\* timestamp that bytes [0,12) encode.
C6_MalformedTimestampRejected ==
  ret.op = "get_timestamp" =>
     /\ ret.res.tag \in {"Ok", "Err"}
     /\ (ret.res.tag = "Err") <=> NanosExceed(hash_id)
     /\ ret.res.tag = "Err" => ret.res.err = "NanosInvalid"
     /\ ret.res.tag = "Ok" => Tai64N_to_bytes(ret.res.val) = SubSeq(hash_id, 1, 12)

C6_Witness ==
  /\ ret.op = "get_timestamp"
  /\ src.kind = "wire"
  /\ SubSeq(hash_id, 9, 12) = <<59, 154, 202, 0>>
  /\ ret.res.tag = "Err"
  /\ ret.res.err = "NanosInvalid"

\* C7: get_blake3_hash of any 44-byte buffer, also one whose first 12
\* bytes are no valid timestamp, returns Ok with the digest B[12,44); the
\* error branch is never taken.
C7_DigestDecodingTotal ==
  ret.op = "get_blake3_hash" =>
     /\ ret.res.tag = "Ok"
     /\ ret.res.val = SubSeq(hash_id, 13, 44)

C7_Witness ==
  /\ ret.op = "get_blake3_hash"
  /\ src.kind = "wire"
  /\ NanosExceed(hash_id)
  /\ ret.res.tag = "Ok"
  /\ ret.res.val = SubSeq(hash_id, 13, 44)
  /\ ret.res.val[2] = 1

\* C8: in a sequence of new() calls every identifier carries the digest
\* supplied and the clock reading at its call; when a later call reads a
\* strictly greater clock, its encoding is byte-lexicographically strictly
\* greater, whatever the digests; two calls with the same digest give equal
\* identifiers only when their clock readings are equal.
C8_ChronologicalSorting ==
  /\ Len(log) = Len(ids)
  /\ \A i \in DOMAIN ids :
       /\ ids[i].blake3hash = log[i].digest
       /\ ids[i].tai_timestamp = Tai64N_to_bytes(log[i].clock)
  /\ \A i, j \in DOMAIN ids :
       (i < j /\ Tai64N_cmp(log[i].clock, log[j].clock) = "Less") =>
          ByteLexLess(build(ids[i]), build(ids[j]))
  /\ \A i, j \in DOMAIN ids :
       (log[i].digest = log[j].digest /\ ids[i] = ids[j]) =>
          log[i].clock = log[j].clock

C8_Witness ==
  \E i, j \in DOMAIN ids :
     /\ i < j
     /\ Tai64N_cmp(log[i].clock, log[j].clock) = "Less"
     /\ log[i].clock[1] # log[j].clock[1]
     /\ ByteLexLess(log[j].digest, log[i].digest)
     /\ ByteLexLess(build(ids[i]), build(ids[j]))

\* C9: building the same identifier again, after any get_timestamp,
\* get_blake3_hash or clock change, returns the same 44 bytes, and no step
\* changes the fields of an identifier already constructed.
C9_BuildPureIdImmutable ==
  /\ [][(src.kind = "built" /\ src'.kind = "built" /\ src'.id = src.id)
          => hash_id' = hash_id]_vars
  /\ [][\A i \in DOMAIN ids : i \in DOMAIN ids' /\ ids'[i] = ids[i]]_vars

C9_Witness ==
  /\ src.kind = "built"
  /\ src.builds >= 2
  /\ now # log[src.id].clock
  /\ hash_id = ids[src.id].tai_timestamp \o ids[src.id].blake3hash

\* C10: get_timestamp gives the same outcome on every buffer with the same
\* bytes [0,12), and get_blake3_hash the same digest on every buffer with
\* the same bytes [12,44): the other half never changes or fails it.
C10_FieldDecodingIndependent ==
  /\ ret.op = "get_timestamp" =>
       \A d \in DigestSet \cup {Zeros(32)} :
          get_timestamp(SubSeq(hash_id, 1, 12) \o d) = ret.res
  /\ ret.op = "get_blake3_hash" =>
       \A t \in WireTimestampSet \cup {Tai64N_to_bytes(c) : c \in ClockSet} :
          get_blake3_hash(t \o SubSeq(hash_id, 13, 44)) = ret.res

C10_Witness ==
  /\ ret.op = "get_blake3_hash"
  /\ src.kind = "wire"
  /\ get_timestamp(hash_id).tag = "Err"
  /\ ret.res = get_blake3_hash(Zeros(12) \o SubSeq(hash_id, 13, 44))
  /\ ret.res.tag = "Ok"

====
